---- MODULE Spec2Model ----
(***************************************************************************)
(* The overlay engines of the iris browser extension.                      *)
(*                                                                         *)
(*   P  ProductOverlayManager  browser-extension/src/js/content.js 159-330 *)
(*   Q  OverlayManager (queue) browser-extension/src/js/content.js 377-553 *)
(*   E2 OverlayManager         browser-extension2/src/js/content.js 42-194 *)
(*                                                                         *)
(* Both run on a host page that inserts, removes and retargets image       *)
(* elements at will, and both share the DataManager (URL -> result cache). *)
(* JavaScript runs one task to completion, then the microtasks it queued   *)
(* (mutation observer callbacks, resumed awaits), and only then the next   *)
(* task (host script, timer, network response).  Time is counted in        *)
(* milliseconds and advances in steps of TickMs.                           *)
(***************************************************************************)
EXTENDS Integers, Sequences, FiniteSets, Bags, TLC

\* ---------------------------------------------------------------- bounds
MaxHostOpsP == 2     \* DOM mutations of the host in one run, manager P
MaxHostOpsQ == 1     \* DOM mutations of the host in one run, manager Q
MaxHostOpsE2 == 1    \* DOM mutations of the host in one run, manager E2
MaxHostOpsS == 1     \* the same, manager P on a page with a slider
MaxHostOpsC == 0     \* the same, on a page without layout boxes
MaxHostOpsF == 1     \* the same, manager P with its own insertions observed
MaxMsgs     == 3     \* CHECK_IMAGE messages sent to the background script
MaxDetections  == 2  \* detections in one lookup result
MaxPredictions == 2  \* product predictions of one detection
MaxBatch    == 1     \* DOM mutations the host performs in one task
TickMs      == 50    \* granularity of the clock, ms, while a debounce runs
TickMsQ     == 100   \* granularity of the clock, ms, otherwise

\* ----------------------------------------------------- program constants
processingDebounceDelay == 100   \* config.ui.processingDebounceDelay
initialLoadDelay        == 500   \* config.ui.initialLoadDelay
mutationDebounceDelay   == 500   \* OverlayManager: setTimeout(.., 500)
queueDelay              == 100   \* OverlayManager: setTimeout(.., 100)
minImageSize            == 256   \* OverlayManager.isValidImage
tooltipHeight           == 80    \* .iris-tooltip-content { height: 80px }

\* ------------------------------------------------------------ the page
Imgs     == {"i1", "i2"}            \* image elements of the page
ImgOrder == <<"i1", "i2">>          \* their document order
Conts    == {"c1"}                  \* element nodes that hold images
Body     == "body"
Wrapper  == "w1"                    \* the element that holds a slider's slides
None     == "none"
Urls     == {"a", "b"}
Sizes    == {200, 300}               \* smaller side of a rendered box, px
NoSrc    == ""                      \* an img without src: img.src is ""
DataSrc  == "data:image/png;base64,AA"  \* an inline image
Srcs     == Urls \cup {NoSrc, DataSrc}
\* what the page may set an image's src to: the first image may lose its
\* src, the second may become an inline image
SrcsOf(i) == Urls \cup {IF i = "i1" THEN NoSrc ELSE DataSrc}
\* src.startsWith('data:')
startsWithData(u) == u = DataSrc
Off      == -1                      \* a timer that is not armed
Tip      == "tip"                   \* the product image inside a tooltip
TipUrl   == "p"                     \* its src, the product_image of a prediction
OvHit    == "ovHit"                 \* an overlay element holding a product link
OvEmpty  == "ovEmpty"               \* an overlay element without links
SlideClass    == "swiper-slide"
ActiveClasses == {"swiper-slide-active", "swiper-slide-next",
                  "swiper-slide-prev"}

VARIABLES
  manager,            \* "P", "Q" or "E2": the content script on the page,
                      \* "B": the background script
  imageCache,         \* B: imageCache, a function from the cached urls
  messages,           \* B: message -> [url, st, answers, answer, how]
  ui,                 \* U: the link the last createProductLink call returned
  parentOf,           \* DOM: img -> Body, a container, or None (no parent)
  attached,           \* DOM: the containers and wrapper that have a parent
  src,                \* DOM: img -> its src
  rect,               \* DOM: img -> the smaller side of its rendered box, px
  classes,            \* DOM: container -> its class list
  boxless,            \* DOM: the elements styled display:contents; body
                      \* stands for body and html together
  records,            \* MutationObserver: records queued for the callback
  transient,          \* nodes removed since the last callback (still observed)
  hostOps,            \* DOM mutations performed by the host so far
  cache,              \* DataManager.cache: a function from the cached urls
  calls,              \* bag of processImage calls suspended at their await
  overlays,           \* overlays map: img -> overlay id, 0 when unbound
  ovl,                \* overlay elements that have a parent:
                      \*   [id, img, cont, data, display]
  processingUrls,     \* processingUrls set
  pendingImages,      \* P: pendingImages, in insertion order
  processingTimeout,  \* P: ms until the debounce timer fires, or Off
  initialTimer,       \* P: ms until processExistingImages runs, or Off
  processQueue,       \* Q: processQueue
  isProcessing,       \* Q: isProcessing
  mutationTimeout,    \* Q: ms until the mutation timer fires, or Off
  mutationBatch,      \* Q: the mutations list that timer's callback holds
  queueTimers,        \* Q: ms until each pending continuation timer fires
  slideObservers,     \* P: slide -> the overlay its class observer updates, or 0
  slideRecords,       \* P: slides whose class observer has a record queued
  burst,              \* history: candidates seen in the current debounce window
  burstAge,           \* history: ms since the first candidate of that window
  firstSeen,          \* history: the candidates since the last flush, in the
                      \* order in which each was first observed
  failedUrls,         \* history: urls of which a lookup has failed
  left,               \* history: images that left the document since the last callback
  unhandled,          \* history: host records delivered and not yet acted on
  last                \* history: the reaction that ran last

vars == <<manager, imageCache, messages, ui, parentOf, attached, src, rect,
          classes, boxless, slideObservers,
          slideRecords, records, transient, hostOps,
          cache, calls, overlays, ovl, processingUrls, pendingImages,
          processingTimeout, initialTimer, processQueue, isProcessing,
          mutationTimeout, mutationBatch, queueTimers, burst, burstAge,
          firstSeen, failedUrls, left, unhandled, last>>

domVars == <<parentOf, attached, src, rect, classes, boxless>>
auxVars == <<imageCache, messages, ui, firstSeen>>

\* ------------------------------------------------------------- helpers
Min(a, b) == IF a < b THEN a ELSE b
Max(a, b) == IF a > b THEN a ELSE b
Range(s)  == {s[k] : k \in 1..Len(s)}
MapSet(m, k, v) == [x \in DOMAIN m \cup {k} |-> IF x = k THEN v ELSE m[x]]

\* the state the engine's handlers read and write, as one record
Cur == [overlays |-> overlays, ovl |-> ovl, processingUrls |-> processingUrls,
        calls |-> calls, cache |-> cache, pendingImages |-> pendingImages,
        processingTimeout |-> processingTimeout, initialTimer |-> initialTimer,
        processQueue |-> processQueue, isProcessing |-> isProcessing,
        mutationTimeout |-> mutationTimeout, mutationBatch |-> mutationBatch,
        queueTimers |-> queueTimers, records |-> records,
        slideObservers |-> slideObservers, slideRecords |-> slideRecords,
        shouldProcess |-> FALSE, thrown |-> FALSE, passed |-> <<>>]

Commit(E) ==
  /\ overlays' = E.overlays
  /\ ovl' = E.ovl
  /\ processingUrls' = E.processingUrls
  /\ calls' = E.calls
  /\ cache' = E.cache
  /\ pendingImages' = E.pendingImages
  /\ processingTimeout' = E.processingTimeout
  /\ initialTimer' = E.initialTimer
  /\ processQueue' = E.processQueue
  /\ isProcessing' = E.isProcessing
  /\ mutationTimeout' = E.mutationTimeout
  /\ mutationBatch' = E.mutationBatch
  /\ queueTimers' = E.queueTimers
  /\ records' = E.records
  /\ slideObservers' = E.slideObservers
  /\ slideRecords' = E.slideRecords

\* ----------------------------------------------------------------- DOM
IsImg(n) == n \in Imgs                       \* node.nodeName === 'IMG'

\* node.classList
ClassList(n) == IF n \in Conts THEN classes[n] ELSE {}

\* a slide is a child of the slider's wrapper, any other container of body
ContParent(c) == IF SlideClass \in ClassList(c) THEN Wrapper ELSE Body

InDocument(p) ==
  \/ p = Body
  \/ p = Wrapper /\ Wrapper \in attached
  \/ p \in Conts /\ p \in attached
       /\ (ContParent(p) = Wrapper => Wrapper \in attached)
ImgInDocument(i) == parentOf[i] # None /\ InDocument(parentOf[i])

\* node.querySelectorAll('img'), in document order; the overlay built from
\* a hit holds one tooltip image
querySelectorAll(n) ==
  IF n = OvHit THEN <<Tip>>
  ELSE SelectSeq(ImgOrder, LAMBDA i :
         \/ n \in Conts /\ parentOf[i] = n
         \/ n = Wrapper /\ parentOf[i] \in Conts /\ parentOf[i] \in attached
              /\ ContParent(parentOf[i]) = Wrapper)

\* img.src
SrcOf(i) == IF i = Tip THEN TipUrl ELSE src[i]

\* Math.min(rect.width, rect.height) of img.getBoundingClientRect()
RectOf(i) == IF i = Tip THEN tooltipHeight ELSE rect[i]

\* document.querySelectorAll('img')
documentImages == SelectSeq(ImgOrder, LAMBDA i : ImgInDocument(i))

\* a mutation of node n is recorded when body or a node still carrying a
\* transient observer is among its inclusive ancestors
ObservedCont(c) ==
  \/ c \in transient
  \/ c \in attached /\ (InDocument(ContParent(c))
                        \/ ContParent(c) \in transient)

Observed(n) ==
  \/ n = Body
  \/ n \in transient
  \/ n = Wrapper /\ Wrapper \in attached
  \/ n \in Conts /\ ObservedCont(n)
  \/ n \in Imgs /\ parentOf[n] # None
       /\ (parentOf[n] = Body \/ ObservedCont(parentOf[n]))

ChildListAdded(n)   == [type |-> "childList", addedNodes |-> <<n>>,
                        removedNodes |-> <<>>, target |-> None]
ChildListRemoved(n) == [type |-> "childList", addedNodes |-> <<>>,
                        removedNodes |-> <<n>>, target |-> None]
AttributeChanged(n) == [type |-> "attributes", addedNodes |-> <<>>,
                        removedNodes |-> <<>>, target |-> n]

\* ------------------------------------------------------ lookup results
\* the backend's answer for a url is stable: detections for "a", none for "b"
Result(u) == [url |-> u, kind |-> IF u = "a" THEN "hit" ELSE "empty"]
ErrorData == [url |-> None, kind |-> "error"]   \* { exists: false, error }
NoData == [url |-> None, kind |-> "pending"]     \* nothing received yet
\* a body that is not what the backend promises: "nolist" has no detections /
\* masks list, "badlink" has a list with an entry a link cannot be built from
\* (no product_predictions[0], no point)
BadKinds == {"nolist", "badlink"}
Payload(u, k) == [url |-> u, kind |-> k]
\* the result object has a detections / masks list: a well-formed body has
\* one, the literal { exists: false, error: error.message } has none
HasDetections(data) == data.kind \in {"hit", "empty", "badlink"}

\* a processImage call suspended at `await this.dataManager.checkImage(..)`
Call(i, u, st, d) == [img |-> i, url |-> u, st |-> st, data |-> d]
Suspended == BagToSet(calls)
Ready     == {c \in Suspended : c.st \in {"ready", "skip"}}
Fetching  == {c \in Suspended : c.st = "fetch"}
\* the number of requests for url u that await their response
InFlightIn(bag, u) ==
  LET S == {c \in BagToSet(bag) : c.st = "fetch" /\ c.url = u}
      RECURSIVE Sum(_)
      Sum(T) == IF T = {} THEN 0
                ELSE LET c == CHOOSE x \in T : TRUE
                     IN CopiesIn(c, bag) + Sum(T \ {c})
  IN Sum(S)
InFlight(u) == InFlightIn(calls, u)

\* no microtask is pending: the next task may start
Idle == records = <<>> /\ slideRecords = {} /\ Ready = {}

\* checkImage without the cache.has test: every call sends a request
checkImage_uncached(E, i, u) == Call(i, u, "fetch", NoData)

\* DataManager.checkImage up to its first await: a cached url resolves at
\* once with the cached value, any other url sends a request
checkImage(E, i, u) ==
  IF u \in DOMAIN E.cache THEN Call(i, u, "ready", E.cache[u])
  ELSE Call(i, u, "fetch", NoData)

\* ----------------------------------------------- ProductOverlayManager
P_isValidImage(i) == SrcOf(i) # NoSrc /\ ~startsWithData(SrcOf(i))

\* cleanupImage without `.remove()`: the binding goes, the element stays
cleanupImage_keepsElement(E, i) ==
  IF E.overlays[i] # 0 THEN [E EXCEPT !.overlays[i] = 0] ELSE E

\* cleanupImage with `this.overlays.clear()` in place of delete
cleanupImage_clearsAll(E, i) ==
  IF E.overlays[i] # 0
  THEN [E EXCEPT !.ovl = {o \in @ : o.id # E.overlays[i]},
                 !.overlays = [j \in Imgs |-> 0]]
  ELSE E

cleanupImage(E, i) ==
  IF E.overlays[i] # 0
  THEN [E EXCEPT !.ovl = {o \in @ : o.id # E.overlays[i]}, !.overlays[i] = 0]
  ELSE E

RECURSIVE cleanupImages(_, _)
cleanupImages(E, s) ==
  IF s = <<>> THEN E ELSE cleanupImages(cleanupImage(E, Head(s)), Tail(s))

\* cleanupNode without the querySelectorAll('img') pass
P_cleanupNode_shallow(E, n) == IF IsImg(n) THEN cleanupImage(E, n) ELSE E

\* cleanupSlide: disconnect() also empties the observer's record queue
cleanupSlide(E, c) ==
  IF c \in Conts /\ E.slideObservers[c] # 0
  THEN [E EXCEPT !.slideObservers[c] = 0, !.slideRecords = @ \ {c}]
  ELSE E

P_cleanupNode(E, n) ==
  LET E1 == IF IsImg(n) THEN cleanupImage(E, n) ELSE E
      E2 == IF SlideClass \in ClassList(n) THEN cleanupSlide(E1, n) ELSE E1
  IN cleanupImages(E2, querySelectorAll(n))

\* processImage up to its await
\* processImage without its isValidImage test
P_processImage_unchecked(E0, i) ==
  LET E == [E0 EXCEPT !.passed = Append(@, i)] IN
  IF src[i] \in E.processingUrls THEN E
  ELSE [E EXCEPT !.processingUrls = @ \cup {src[i]},
                 !.calls = @ (+) SetToBag({checkImage(E, i, src[i])})]

P_processImage(E0, i) ==
  LET E == [E0 EXCEPT !.passed = Append(@, i)] IN   \* the call, for the record
  IF ~P_isValidImage(i) THEN E
  ELSE IF src[i] \in E.processingUrls THEN E
  ELSE [E EXCEPT !.processingUrls = @ \cup {src[i]},
                 !.calls = @ (+) SetToBag({checkImage(E, i, src[i])})]

RECURSIVE P_processImages(_, _)
P_processImages(E, s) ==
  IF s = <<>> THEN E ELSE P_processImages(P_processImage(E, Head(s)), Tail(s))

\* a fresh element: its identity differs from every overlay that exists
FreshId(E) ==
  LET used == {o.id : o \in E.ovl} \cup {E.overlays[i] : i \in Imgs}
  IN CHOOSE n \in 1..(Cardinality(used) + 1) : n \notin used

\* updateVisibility of the observer set up for (container, overlay)
updateVisibility(E, c, id) ==
  LET isActive == ClassList(c) \cap ActiveClasses # {} IN
  [E EXCEPT !.ovl = {IF o.id = id
                     THEN [o EXCEPT !.display = IF isActive THEN "block"
                                                ELSE "none"]
                     ELSE o : o \in @}]

setupSlideObserver(E, c, id) ==
  [updateVisibility(cleanupSlide(E, c), c, id) EXCEPT !.slideObservers[c] = id]

createOrUpdateOverlay(E, i, data) ==
  LET container == parentOf[i] IN
  IF container = None THEN E
  ELSE LET E1 == cleanupImage(E, i)
           overlay == [id |-> FreshId(E), img |-> i, cont |-> container,
                       data |-> data, display |-> ""]
           E2 == [E1 EXCEPT !.ovl = @ \cup {overlay},
                            !.overlays[i] = overlay.id]
       IN IF SlideClass \in ClassList(container)
          THEN setupSlideObserver(E2, container, overlay.id)
          ELSE E2

\* the callback of a slide's class observer
P_slideCallback(E, c) ==
  [updateVisibility(E, c, E.slideObservers[c]) EXCEPT !.slideRecords = @ \ {c}]

\* a Set.add that puts a new element first
SetAdd_prepending(s, x) == IF x \in Range(s) THEN s ELSE <<x>> \o s

\* the timer's callback with `pendingImages.delete(first)` in place of clear()
P_flush_one(E) ==
  [P_processImages(E, E.pendingImages)
     EXCEPT !.pendingImages = IF @ = <<>> THEN @ ELSE Tail(@),
            !.processingTimeout = Off]

\* `pendingImages = new Set([node])` in place of `pendingImages.add(node)`
SetAdd_replacing(s, x) == <<x>>

\* Set.add on the insertion-ordered pendingImages
SetAdd(s, x) == IF x \in Range(s) THEN s ELSE Append(s, x)

isImageAttributeChange(m) == m.type = "attributes" /\ IsImg(m.target)

\* isImageNode(node), with its side effect on a non-image element
P_addedNode(E, n) ==
  IF IsImg(n)
  THEN [E EXCEPT !.pendingImages = SetAdd(@, n), !.shouldProcess = TRUE]
  ELSE P_processImages(E, querySelectorAll(n))

RECURSIVE P_addedNodes(_, _)
P_addedNodes(E, s) ==
  IF s = <<>> THEN E ELSE P_addedNodes(P_addedNode(E, Head(s)), Tail(s))

RECURSIVE P_removedNodes(_, _)
P_removedNodes(E, s) ==
  IF s = <<>> THEN E ELSE P_removedNodes(P_cleanupNode(E, Head(s)), Tail(s))

P_mutation(E, m) ==
  IF m.type = "childList"
  THEN P_removedNodes(P_addedNodes(E, m.addedNodes), m.removedNodes)
  ELSE IF isImageAttributeChange(m)
  THEN [E EXCEPT !.pendingImages = SetAdd(@, m.target), !.shouldProcess = TRUE]
  ELSE E

RECURSIVE P_mutations(_, _)
P_mutations(E, ms) ==
  IF ms = <<>> THEN E ELSE P_mutations(P_mutation(E, Head(ms)), Tail(ms))

\* the callback with a timer that is started once and not restarted
P_observerCallback_once(E, ms) ==
  LET E1 == P_mutations(E, ms) IN
  IF E1.shouldProcess /\ E.processingTimeout = Off
  THEN [E1 EXCEPT !.processingTimeout = processingDebounceDelay]
  ELSE E1

\* the MutationObserver callback of setupMutationObserver
P_observerCallback(E, ms) ==
  LET E1 == P_mutations(E, ms) IN
  IF E1.shouldProcess
  THEN [E1 EXCEPT !.processingTimeout = processingDebounceDelay]
  ELSE E1

\* the debounce timer's callback
P_flush(E) ==
  [P_processImages(E, E.pendingImages)
     EXCEPT !.pendingImages = <<>>, !.processingTimeout = Off]

processExistingImages(E) ==
  [P_processImages(E, documentImages) EXCEPT !.initialTimer = Off]

\* processImage from its await on: a resolved lookup
P_resolved(E, c, data) ==
  [createOrUpdateOverlay(E, c.img, data)
     EXCEPT !.processingUrls = @ \ {src[c.img]},
            !.calls = @ (-) SetToBag({c})]

\* checkImage after a good response caches the body, then processImage resumes
P_response(E, c) ==
  P_resolved([E EXCEPT !.cache = MapSet(@, c.url, Result(c.url))], c,
             Result(c.url))

\* checkImage rethrows, processImage's catch builds the not-found overlay
P_failed(E, c) == P_resolved(E, c, ErrorData)

\* ------------------------------------------------ OverlayManager (queue)
Q_isValidImage(i) ==
  /\ SrcOf(i) # NoSrc
  /\ ~startsWithData(SrcOf(i))
  /\ RectOf(i) >= minImageSize

\* the element an overlay is, as a node of a mutation record
OvNode(data) == IF data.kind = "hit" THEN OvHit ELSE OvEmpty

\* the engine's own DOM changes are recorded like the host's
Recorded(E, p, r) ==
  IF Observed(p) THEN [E EXCEPT !.records = Append(@, r)] ELSE E

removeOverlay(E, i) ==
  IF i \in Imgs /\ E.overlays[i] # 0
  THEN IF \E x \in E.ovl : x.id = E.overlays[i]
       THEN LET o == CHOOSE x \in E.ovl : x.id = E.overlays[i]
            IN Recorded([E EXCEPT !.ovl = @ \ {o}, !.overlays[i] = 0],
                        o.cont, ChildListRemoved(OvNode(o.data)))
       ELSE [E EXCEPT !.overlays[i] = 0]    \* remove() of a parentless element
  ELSE E

RECURSIVE removeOverlays(_, _)
removeOverlays(E, s) ==
  IF s = <<>> THEN E ELSE removeOverlays(removeOverlay(E, Head(s)), Tail(s))

Q_cleanupNode(E, n) ==
  IF IsImg(n) THEN removeOverlay(E, n) ELSE removeOverlays(E, querySelectorAll(n))

\* element.parentElement
parentElement(n) ==
  IF n \in Imgs THEN parentOf[n]
  ELSE IF n \in Conts /\ n \in attached THEN ContParent(n)
  ELSE IF n = Wrapper /\ n \in attached THEN Body
  ELSE None

\* the while loop of getFirstParentWithBox
RECURSIVE FirstWithBox(_)
FirstWithBox(parent) ==
  IF parent # None /\ parent \in boxless
  THEN FirstWithBox(parentElement(parent))
  ELSE parent

\* getFirstParentWithBox(element)
getFirstParentWithBox(i) == FirstWithBox(parentElement(i))

\* createOverlay that replaces an existing overlay instead of returning early
Q_createOverlay_replacing(E, i, data) ==
  LET container == getFirstParentWithBox(i) IN
  IF container = None THEN E
  ELSE IF ~HasDetections(data) \/ data.kind = "badlink"
  THEN [E EXCEPT !.thrown = TRUE]
  ELSE LET E1 == removeOverlay(E, i)
           overlay == [id |-> FreshId(E), img |-> i, cont |-> container,
                       data |-> data, display |-> ""]
       IN Recorded([E1 EXCEPT !.ovl = @ \cup {overlay},
                              !.overlays[i] = overlay.id],
                   container, ChildListAdded(OvNode(data)))

\* createOverlay: data.detections.length throws without a list, and
\* createProductLink throws on an entry it cannot read, both before
\* overlays.set
Q_createOverlay(E, i, data) ==
  LET container == getFirstParentWithBox(i) IN
  IF E.overlays[i] # 0 THEN E
  ELSE IF container = None THEN E
  ELSE IF ~HasDetections(data) \/ data.kind = "badlink"
  THEN [E EXCEPT !.thrown = TRUE]
  ELSE LET overlay == [id |-> FreshId(E), img |-> i, cont |-> container,
                       data |-> data, display |-> ""]
       IN Recorded([E EXCEPT !.ovl = @ \cup {overlay},
                             !.overlays[i] = overlay.id],
                   container, ChildListAdded(OvNode(data)))

\* processImage up to its await; an image that is not valid returns at once
Q_processImage(E, i) ==
  IF ~Q_isValidImage(i)
  THEN [E EXCEPT !.calls = @ (+) SetToBag({Call(i, SrcOf(i), "skip", NoData)})]
  ELSE [E EXCEPT !.processingUrls = @ \cup {SrcOf(i)},
                 !.calls = @ (+) SetToBag({checkImage(E, i, SrcOf(i))})]

\* processNextInQueue without the isProcessing test
processNextInQueue_eager(E) ==
  IF E.processQueue = <<>> THEN E
  ELSE Q_processImage([E EXCEPT !.isProcessing = TRUE,
                                !.processQueue = Tail(@)],
                      Head(E.processQueue))

\* processNextInQueue up to its await
processNextInQueue(E) ==
  IF E.isProcessing \/ E.processQueue = <<>> THEN E
  ELSE Q_processImage([E EXCEPT !.isProcessing = TRUE,
                                !.processQueue = Tail(@)],
                      Head(E.processQueue))

addToQueue(E, i) == processNextInQueue([E EXCEPT !.processQueue = Append(@, i)])

RECURSIVE Q_addImages(_, _)
Q_addImages(E, s) ==
  IF s = <<>> THEN E
  ELSE Q_addImages(IF SrcOf(Head(s)) \notin E.processingUrls
                   THEN addToQueue(E, Head(s)) ELSE E, Tail(s))

Q_processNode(E, n) ==
  IF IsImg(n) THEN Q_addImages(E, <<n>>) ELSE Q_addImages(E, querySelectorAll(n))

RECURSIVE Q_processNodes(_, _)
Q_processNodes(E, s) ==
  IF s = <<>> THEN E ELSE Q_processNodes(Q_processNode(E, Head(s)), Tail(s))

RECURSIVE Q_cleanupNodes(_, _)
Q_cleanupNodes(E, s) ==
  IF s = <<>> THEN E ELSE Q_cleanupNodes(Q_cleanupNode(E, Head(s)), Tail(s))

Q_mutation(E, m) ==
  LET E1 == IF m.type = "childList"
            THEN Q_cleanupNodes(Q_processNodes(E, m.addedNodes), m.removedNodes)
            ELSE E
  IN IF m.type = "attributes"
     THEN Q_processNode(Q_cleanupNode(E1, m.target), m.target)
     ELSE E1

RECURSIVE Q_mutations(_, _)
Q_mutations(E, ms) ==
  IF ms = <<>> THEN E ELSE Q_mutations(Q_mutation(E, Head(ms)), Tail(ms))

\* the MutationObserver callback: clearTimeout, then setTimeout(.., 500)
Q_observerCallback(E, ms) ==
  [E EXCEPT !.mutationTimeout = mutationDebounceDelay, !.mutationBatch = ms]

\* the callback of that timer
Q_mutationTimer(E) ==
  [Q_mutations(E, E.mutationBatch)
     EXCEPT !.mutationTimeout = Off, !.mutationBatch = <<>>]

\* the finally block of processNextInQueue without its setTimeout
Q_finished_untimed(E, c) ==
  [E EXCEPT !.thrown = FALSE, !.calls = @ (-) SetToBag({c}),
            !.isProcessing = FALSE]

\* processNextInQueue from its await on: its catch block takes what
\* processImage threw, then the finally block
Q_finished(E, c) ==
  [E EXCEPT !.thrown = FALSE, !.calls = @ (-) SetToBag({c}),
            !.isProcessing = FALSE, !.queueTimers = Append(@, queueDelay)]

\* the catch block of processImage: createOverlay with the error literal
Q_catch(E, i) ==
  IF E.thrown THEN Q_createOverlay([E EXCEPT !.thrown = FALSE], i, ErrorData)
  ELSE E

\* processImage from its await on: try, catch, finally; what the catch block
\* throws goes to processNextInQueue
Q_resolved(E, c, data) ==
  LET E1 == IF data.kind = "error" THEN [E EXCEPT !.thrown = TRUE]
            ELSE Q_createOverlay(E, c.img, data)
      E2 == Q_catch(E1, c.img)
  IN Q_finished([E2 EXCEPT !.processingUrls = @ \ {SrcOf(c.img)}], c)

Q_response(E, c) ==
  Q_resolved([E EXCEPT !.cache = MapSet(@, c.url, Result(c.url))], c,
             Result(c.url))

\* an ok response with a body of kind k: cached as it is
Q_malformed(E, c, k) ==
  Q_resolved([E EXCEPT !.cache = MapSet(@, c.url, Payload(c.url, k))], c,
             Payload(c.url, k))

\* checkImage rethrows into processImage's catch block
Q_failed(E, c) == Q_resolved(E, c, ErrorData)

\* the callback of a continuation timer
Q_queueTimer(E) == processNextInQueue([E EXCEPT !.queueTimers = Tail(@)])

\* processExistingImages: the images in the viewport first, then the others
Q_processExistingImages(E, visible) ==
  LET images == documentImages
      RECURSIVE AddAll(_, _)
      AddAll(F, s) == IF s = <<>> THEN F ELSE AddAll(addToQueue(F, Head(s)), Tail(s))
  IN AddAll(AddAll(E, SelectSeq(images, LAMBDA i : i \in visible)),
            SelectSeq(images, LAMBDA i : i \notin visible))

\* ------------------------------ OverlayManager of browser-extension2
\* It reacts inside the mutation callback, without timer or queue.  The
\* overlay elements it inserts and removes itself are left out of the
\* records: in them the callback finds no page image.
E2_isValidImage(i) == SrcOf(i) # NoSrc /\ ~startsWithData(SrcOf(i))

E2_removeOverlay(E, i) ==
  IF E.overlays[i] # 0
  THEN [E EXCEPT !.ovl = {o \in @ : o.id # E.overlays[i]}, !.overlays[i] = 0]
  ELSE E

RECURSIVE E2_removeOverlays(_, _)
E2_removeOverlays(E, s) ==
  IF s = <<>> THEN E
  ELSE E2_removeOverlays(E2_removeOverlay(E, Head(s)), Tail(s))

E2_cleanupNode(E, n) ==
  IF IsImg(n) THEN E2_removeOverlay(E, n)
  ELSE E2_removeOverlays(E, querySelectorAll(n))

\* createOverlay: data.masks.length throws without a list; overlays.set
\* comes before the links are built and the overlay is appended
E2_createOverlay(E, i, data) ==
  LET container == getFirstParentWithBox(i) IN
  IF E.overlays[i] # 0 THEN E
  ELSE IF container = None THEN E
  ELSE IF ~HasDetections(data) THEN [E EXCEPT !.thrown = TRUE]
  ELSE LET overlay == [id |-> FreshId(E), img |-> i, cont |-> container,
                       data |-> data, display |-> ""]
           E1 == [E EXCEPT !.overlays[i] = overlay.id]
       IN IF data.kind = "badlink" THEN [E1 EXCEPT !.thrown = TRUE]
          ELSE [E1 EXCEPT !.ovl = @ \cup {overlay}]

\* processImage up to its await; rest are the images the for-loop of
\* processNode goes on with when this call has finished
E2_processImage(E, i, rest) ==
  IF ~E2_isValidImage(i)
  THEN IF rest = <<>> THEN E
       ELSE [E EXCEPT !.calls = @ (+) SetToBag({
               [img |-> i, url |-> SrcOf(i), st |-> "skip", data |-> NoData,
                rest |-> rest]})]
  ELSE LET c == checkImage(E, i, SrcOf(i)) IN
       [E EXCEPT !.processingUrls = @ \cup {SrcOf(i)},
                 !.calls = @ (+) SetToBag({
                   [img |-> c.img, url |-> c.url, st |-> c.st,
                    data |-> c.data, rest |-> rest]})]

\* processNode: `for (const img of images)` with an await in its body
RECURSIVE E2_loop(_, _)
E2_loop(E, s) ==
  IF s = <<>> THEN E
  ELSE IF SrcOf(Head(s)) \in E.processingUrls THEN E2_loop(E, Tail(s))
  ELSE E2_processImage(E, Head(s), Tail(s))

E2_processNode(E, n) ==
  IF IsImg(n) THEN E2_loop(E, <<n>>) ELSE E2_loop(E, querySelectorAll(n))

RECURSIVE E2_processNodes(_, _)
E2_processNodes(E, s) ==
  IF s = <<>> THEN E ELSE E2_processNodes(E2_processNode(E, Head(s)), Tail(s))

RECURSIVE E2_cleanupNodes(_, _)
E2_cleanupNodes(E, s) ==
  IF s = <<>> THEN E ELSE E2_cleanupNodes(E2_cleanupNode(E, Head(s)), Tail(s))

E2_mutation(E, m) ==
  LET E1 == IF m.type = "childList"
            THEN E2_cleanupNodes(E2_processNodes(E, m.addedNodes), m.removedNodes)
            ELSE E
  IN IF m.type = "attributes"
     THEN E2_processNode(E2_cleanupNode(E1, m.target), m.target)
     ELSE E1

\* the MutationObserver callback
RECURSIVE E2_observerCallback(_, _)
E2_observerCallback(E, ms) ==
  IF ms = <<>> THEN E ELSE E2_observerCallback(E2_mutation(E, Head(ms)), Tail(ms))

\* processImage from its await on: try, catch, finally.  What the catch
\* block throws rejects the promise: processNode's loop ends there and
\* nothing handles the rejection
E2_resolved(E, c, data) ==
  LET E1 == IF data.kind = "error" THEN [E EXCEPT !.thrown = TRUE]
            ELSE E2_createOverlay(E, c.img, data)
      E2 == IF E1.thrown
            THEN E2_createOverlay([E1 EXCEPT !.thrown = FALSE], c.img, ErrorData)
            ELSE E1
      E3 == [E2 EXCEPT !.processingUrls = @ \ {SrcOf(c.img)},
                       !.calls = @ (-) SetToBag({c})]
  IN IF E3.thrown THEN E3 ELSE E2_loop(E3, c.rest)

\* an image that is not valid: processImage returned at once
E2_skipped(E, c) == E2_loop([E EXCEPT !.calls = @ (-) SetToBag({c})], c.rest)

E2_response(E, c) ==
  E2_resolved([E EXCEPT !.cache = MapSet(@, c.url, Result(c.url))], c,
              Result(c.url))

E2_malformed(E, c, k) ==
  E2_resolved([E EXCEPT !.cache = MapSet(@, c.url, Payload(c.url, k))], c,
              Payload(c.url, k))

E2_failed(E, c) == E2_resolved(E, c, ErrorData)

\* processExistingImages: processImage for every image, not awaited
RECURSIVE E2_processExistingImages(_, _)
E2_processExistingImages(E, s) ==
  IF s = <<>> THEN E
  ELSE E2_processExistingImages(E2_processImage(E, Head(s), <<>>), Tail(s))

\* ------------------------------------------------------------ the host
\* the page's own scripts: each step is one DOM mutation; the mutations of
\* one task are delivered to the observer together
\* the page has a slider: a container is one of its slides
SliderPage == \E c \in Conts : SlideClass \in classes[c]

MaxHostOps == IF boxless # {} THEN MaxHostOpsC
              ELSE IF manager = "F" THEN MaxHostOpsF
              ELSE IF manager = "P"
              THEN IF SliderPage THEN MaxHostOpsS ELSE MaxHostOpsP
              ELSE IF manager = "Q" THEN MaxHostOpsQ ELSE MaxHostOpsE2

HostMay == hostOps < MaxHostOps /\ Len(records) < MaxBatch /\ Ready = {}

Record(n, r) == IF Observed(n) THEN Append(records, r) ELSE records

HostStep(op) ==
  /\ hostOps' = hostOps + 1
  /\ last' = [op |-> op]
  /\ UNCHANGED <<manager, auxVars, rect, boxless, cache, calls, overlays, ovl, processingUrls,
                 pendingImages, processingTimeout, initialTimer, processQueue,
                 isProcessing, mutationTimeout, mutationBatch, queueTimers,
                 slideObservers, burst, burstAge, failedUrls, unhandled>>

\* parent.appendChild(img)
HostInsertImg(i, p) ==
  /\ HostMay
  /\ parentOf[i] = None
  /\ parentOf' = [parentOf EXCEPT ![i] = p]
  /\ records' = Record(p, ChildListAdded(i))
  /\ HostStep("HostInsertImg")
  /\ UNCHANGED <<attached, src, transient, left, classes, slideRecords>>

\* img.remove()
HostRemoveImg(i) ==
  /\ HostMay
  /\ parentOf[i] # None
  /\ parentOf' = [parentOf EXCEPT ![i] = None]
  /\ records' = Record(i, ChildListRemoved(i))
  /\ transient' = IF Observed(i) THEN transient \cup {i} ELSE transient
  /\ left' = IF ImgInDocument(i) THEN left \cup {i} ELSE left
  /\ HostStep("HostRemoveImg")
  /\ UNCHANGED <<attached, src, classes, slideRecords>>

\* document.body.appendChild(container), wrapper.appendChild(slide)
HostInsertCont(c) ==
  /\ HostMay
  /\ c \notin attached
  /\ attached' = attached \cup {c}
  /\ records' = Record(ContParent(c), ChildListAdded(c))
  /\ HostStep("HostInsertCont")
  /\ UNCHANGED <<parentOf, src, transient, left, classes, slideRecords>>

\* container.remove(), the images inside leave the document with it
HostRemoveCont(c) ==
  /\ HostMay
  /\ c \in attached
  /\ attached' = attached \ {c}
  /\ records' = Record(c, ChildListRemoved(c))
  /\ transient' = IF Observed(c) THEN transient \cup {c} ELSE transient
  /\ left' = left \cup {i \in Imgs : parentOf[i] = c /\ ImgInDocument(i)}
  /\ HostStep("HostRemoveCont")
  /\ UNCHANGED <<parentOf, src, classes, slideRecords>>

\* the page takes the slider out: wrapper.remove(), with its slides and
\* their images
HostRemoveWrapper ==
  /\ HostMay
  /\ Wrapper \in attached
  /\ attached' = attached \ {Wrapper}
  /\ records' = Append(records, ChildListRemoved(Wrapper))
  /\ transient' = transient \cup {Wrapper}
  /\ left' = left \cup {i \in Imgs : ImgInDocument(i)
                                  /\ ContParent(parentOf[i]) = Wrapper}
  /\ HostStep("HostRemoveWrapper")
  /\ UNCHANGED <<parentOf, src, classes, slideRecords>>

\* img.src = u
HostSetSrc(i, u) ==
  /\ HostMay
  /\ src[i] # u
  /\ src' = [src EXCEPT ![i] = u]
  /\ records' = Record(i, AttributeChanged(i))
  /\ HostStep("HostSetSrc")
  /\ UNCHANGED <<parentOf, attached, transient, left, classes, slideRecords>>

\* container.setAttribute('src', ..) on an element that is not an img (a
\* video with fallback content, a custom element that wraps its img)
HostSetAttr(c) ==
  /\ HostMay
  /\ Observed(c)
  /\ records' = Record(c, AttributeChanged(c))
  /\ HostStep("HostSetAttr")
  /\ UNCHANGED <<parentOf, attached, src, transient, left, classes,
                 slideRecords>>

\* the page's layout changes the rendered box of an image (a style sheet, a
\* window resize): no attribute the observer filters on changes, so no record.
\* Only OverlayManager.isValidImage reads the box.
HostResize(i, r) ==
  /\ HostMay
  /\ rect[i] # r
  /\ rect' = [rect EXCEPT ![i] = r]
  /\ hostOps' = hostOps + 1
  /\ last' = [op |-> "HostResize"]
  /\ UNCHANGED <<manager, auxVars, parentOf, attached, src, classes,
                 boxless, slideObservers,
                 slideRecords, records, transient, cache, calls, overlays,
                 ovl, processingUrls, pendingImages, processingTimeout,
                 initialTimer, processQueue, isProcessing, mutationTimeout,
                 mutationBatch, queueTimers, burst, burstAge, failedUrls,
                 left, unhandled>>

\* the slider moves: slide.classList.toggle(k).  The slide's own observer
\* gets a record; the body's observer filters on src and srcset
HostToggleClass(c, k) ==
  /\ HostMay
  /\ SlideClass \in classes[c]
  /\ classes' = [classes EXCEPT ![c] = IF k \in @ THEN @ \ {k} ELSE @ \cup {k}]
  /\ slideRecords' = IF slideObservers[c] # 0 THEN slideRecords \cup {c}
                     ELSE slideRecords
  /\ HostStep("HostToggleClass")
  /\ UNCHANGED <<parentOf, attached, src, records, transient, left>>

Host ==
  \/ HostRemoveWrapper
  \/ \E c \in Conts, k \in ActiveClasses : HostToggleClass(c, k)
  \/ \E i \in Imgs, p \in {Body} \cup Conts : HostInsertImg(i, p)
  \/ \E i \in Imgs : HostRemoveImg(i)
  \/ \E c \in Conts : HostInsertCont(c)
  \/ \E c \in Conts : HostRemoveCont(c)
  \/ \E i \in Imgs : \E u \in SrcsOf(i) : HostSetSrc(i, u)
  \/ \E c \in Conts : HostSetAttr(c)

\* ------------------------------------------------------------ the clock
Elapse(t, ms) == IF t = Off THEN Off ELSE Max(t - ms, 0)

P_timers == {processingTimeout, initialTimer}

\* the clock is read finely while the debounce timer runs, and coarsely
\* while only the initial load delay does
P_step == IF processingTimeout = Off THEN TickMsQ ELSE TickMs
Count(t) == Elapse(t, P_step)

\* time passes only while no task is due
P_Tick ==
  /\ manager = "P"
  /\ Idle
  /\ 0 \notin P_timers
  /\ P_timers # {Off}
  /\ processingTimeout' = Count(processingTimeout)
  /\ initialTimer' = Count(initialTimer)
  /\ burstAge' = IF processingTimeout # Off
                 THEN Min(burstAge + TickMs, processingDebounceDelay)
                 ELSE burstAge
  /\ last' = [op |-> "Tick"]
  /\ UNCHANGED <<manager, auxVars, domVars, slideObservers, slideRecords, records,
                 transient, hostOps, cache, calls,
                 overlays, ovl, processingUrls, pendingImages, processQueue,
                 isProcessing, mutationTimeout, mutationBatch, queueTimers,
                 burst, failedUrls, left, unhandled>>

\* what a resumed processImage call did: the call, the result it was given,
\* whether its image was in the document, the binding before and the result
\* that overlay was built from, and whether an overlay was built and bound
Resolved(op, c, data, E) ==
  [op |-> op, call |-> c, data |-> data, inDoc |-> ImgInDocument(c.img),
   before |-> overlays[c.img],
   prior |-> IF \E o \in ovl : o.id = overlays[c.img]
             THEN (CHOOSE o \in ovl : o.id = overlays[c.img]).data
             ELSE NoData,
   created |-> E.overlays[c.img] \notin {0, overlays[c.img]},
   raised |-> E.thrown]

ResolveOps == {"P_Response", "P_Failure", "P_Resume",
               "Q_Response", "Q_Failure", "Q_Resume", "Q_Malformed",
               "E2_Response", "E2_Failure", "E2_Resume", "E2_Malformed"}

\* --------------------------------------- ProductOverlayManager reactions
\* the images for which this callback called pendingImages.add
Candidates(ms) ==
  {n \in Imgs : \E k \in 1..Len(ms) :
      \/ n \in Range(ms[k].addedNodes)
      \/ ms[k].type = "attributes" /\ ms[k].target = n}

\* the same in the order of the records, each image once
RECURSIVE CandidateSeq(_)
CandidateSeq(ms) ==
  IF ms = <<>> THEN <<>>
  ELSE LET m == Head(ms)
           own == IF m.type = "attributes"
                  THEN IF IsImg(m.target) THEN <<m.target>> ELSE <<>>
                  ELSE SelectSeq(m.addedNodes, IsImg)
       IN own \o SelectSeq(CandidateSeq(Tail(ms)),
                           LAMBDA i : i \notin Range(own))

P_MutationCallback ==
  /\ manager = "P"
  /\ records # <<>>
  /\ firstSeen' = firstSeen \o SelectSeq(CandidateSeq(records),
                                         LAMBDA i : i \notin Range(firstSeen))
  /\ Commit([P_observerCallback(Cur, records) EXCEPT !.records = <<>>])
  /\ transient' = {}
  /\ left' = {}
  /\ LET cands == Candidates(records) IN
     /\ burst' = IF cands = {} THEN burst
                 ELSE IF processingTimeout = Off THEN cands
                 ELSE IF burstAge < processingDebounceDelay THEN burst \cup cands
                 ELSE burst
     /\ burstAge' = IF cands # {} /\ processingTimeout = Off THEN 0 ELSE burstAge
  /\ last' = [op |-> "P_MutationCallback", removed |-> left,
              slidesLeft |-> {c \in Conts : /\ SlideClass \in ClassList(c)
                                            /\ ~InDocument(c)
                                            /\ ObservedCont(c)},
              handed |-> {i \in Imgs : \E k \in 1..Len(records) :
                            parentOf[i] \in Range(records[k].addedNodes)},
              bound |-> {i \in Imgs : overlays[i] # 0},
              busy |-> {c.img : c \in Suspended} \cup Range(pendingImages)]
  /\ UNCHANGED <<manager, imageCache, messages, ui, domVars, hostOps,
                 failedUrls, unhandled>>

P_Flush ==
  /\ manager = "P"
  /\ Idle
  /\ processingTimeout = 0
  /\ Commit(P_flush(Cur))
  /\ burst' = {}
  /\ burstAge' = 0
  /\ firstSeen' = <<>>
  /\ last' = [op |-> "P_Flush", batch |-> pendingImages, burst |-> burst,
              age |-> burstAge, handed |-> Range(pendingImages),
              seen |-> firstSeen, passed |-> P_flush(Cur).passed]
  /\ UNCHANGED <<manager, imageCache, messages, ui, domVars, transient,
                 hostOps, failedUrls, left, unhandled>>

P_InitialScan ==
  /\ manager = "P"
  /\ Idle
  /\ initialTimer = 0
  /\ Commit(processExistingImages(Cur))
  /\ last' = [op |-> "P_InitialScan", handed |-> Range(documentImages)]
  /\ UNCHANGED <<manager, auxVars, domVars, transient, hostOps, burst, burstAge,
                 failedUrls, left, unhandled>>

\* a response arrives with a body
P_Response(c) ==
  /\ manager = "P"
  /\ Idle
  /\ c \in Fetching
  /\ Commit(P_response(Cur, c))
  /\ last' = Resolved("P_Response", c, Result(c.url), P_response(Cur, c))
  /\ UNCHANGED <<manager, auxVars, domVars, transient, hostOps, burst, burstAge,
                 failedUrls, left, unhandled>>

\* the request fails: network error or a status that is not ok
P_Failure(c) ==
  /\ manager = "P"
  /\ Idle
  /\ c \in Fetching
  /\ Commit(P_failed(Cur, c))
  /\ failedUrls' = failedUrls \cup {c.url}
  /\ last' = Resolved("P_Failure", c, ErrorData, P_failed(Cur, c))
  /\ UNCHANGED <<manager, auxVars, domVars, transient, hostOps, burst, burstAge,
                 left, unhandled>>

\* a call that found its url cached resumes as a microtask
P_Resume(c) ==
  /\ manager = "P"
  /\ c \in Ready
  /\ Commit(P_resolved(Cur, c, c.data))
  /\ last' = Resolved("P_Resume", c, c.data, P_resolved(Cur, c, c.data))
  /\ UNCHANGED <<manager, auxVars, domVars, transient, hostOps, burst, burstAge,
                 failedUrls, left, unhandled>>

\* the class observer of a slide is called with the records queued for it
P_SlideCallback(c) ==
  /\ manager = "P"
  /\ c \in slideRecords
  /\ Commit(P_slideCallback(Cur, c))
  /\ last' = [op |-> "P_SlideCallback", cont |-> c]
  /\ UNCHANGED <<manager, auxVars, domVars, transient, hostOps, burst, burstAge,
                 failedUrls, left, unhandled>>

P_Next ==
  \/ manager = "P" /\ Host
  \/ P_Tick
  \/ \E c \in Conts : P_SlideCallback(c)
  \/ P_MutationCallback
  \/ P_Flush
  \/ P_InitialScan
  \/ \E c \in Fetching : P_Response(c)
  \/ \E c \in Fetching : P_Failure(c)
  \/ \E c \in Ready : P_Resume(c)

\* the page as the content script finds it
InitPage ==
  /\ parentOf = [i \in Imgs |-> IF i = "i1" THEN Body ELSE "c1"]
  /\ classes = [c \in Conts |-> {}]
  /\ boxless = {}
  /\ attached = Conts
  /\ src \in {f \in [Imgs -> Urls] : f["i1"] = "a"}
  /\ rect = [i \in Imgs |-> 300]
  /\ records = <<>>
  /\ transient = {}
  /\ hostOps = 0
  /\ left = {}
  /\ unhandled = {}

\* a page that lays nothing out above its images: body, html and every
\* container are display:contents
InitContentsPage ==
  /\ parentOf = [i \in Imgs |-> IF i = "i1" THEN Body ELSE "c1"]
  /\ classes = [c \in Conts |-> {}]
  /\ boxless = Conts \cup {Body}
  /\ attached = Conts
  /\ src = [i \in Imgs |-> IF i = "i1" THEN "a" ELSE "b"]
  /\ rect = [i \in Imgs |-> 300]
  /\ records = <<>>
  /\ transient = {}
  /\ hostOps = 0
  /\ left = {}
  /\ unhandled = {}

\* the fields as the constructors set them
New == [overlays |-> [i \in Imgs |-> 0], ovl |-> {}, processingUrls |-> {},
        calls |-> EmptyBag, cache |-> << >>, pendingImages |-> <<>>,
        processingTimeout |-> Off, initialTimer |-> Off,
        processQueue |-> <<>>, isProcessing |-> FALSE,
        mutationTimeout |-> Off, mutationBatch |-> <<>>,
        queueTimers |-> <<>>, records |-> <<>>,
        slideObservers |-> [c \in Conts |-> 0], slideRecords |-> {},
        shouldProcess |-> FALSE, thrown |-> FALSE, passed |-> <<>>]

Constructed(E) ==
  /\ overlays = E.overlays
  /\ ovl = E.ovl
  /\ processingUrls = E.processingUrls
  /\ calls = E.calls
  /\ cache = E.cache
  /\ pendingImages = E.pendingImages
  /\ processingTimeout = E.processingTimeout
  /\ initialTimer = E.initialTimer
  /\ processQueue = E.processQueue
  /\ isProcessing = E.isProcessing
  /\ mutationTimeout = E.mutationTimeout
  /\ mutationBatch = E.mutationBatch
  /\ queueTimers = E.queueTimers
  /\ slideObservers = E.slideObservers
  /\ slideRecords = E.slideRecords

\* a page with a slider: the container is a slide that holds both images
InitSliderPage ==
  /\ parentOf = [i \in Imgs |-> "c1"]
  /\ classes = [c \in Conts |-> {SlideClass}]
  /\ boxless = {}
  /\ attached = Conts \cup {Wrapper}
  /\ src = [i \in Imgs |-> IF i = "i1" THEN "a" ELSE "b"]
  /\ rect = [i \in Imgs |-> 300]
  /\ records = <<>>
  /\ transient = {}
  /\ hostOps = 0
  /\ left = {}
  /\ unhandled = {}

\* a CHECK_IMAGE message the content script has not sent yet
NoAnswer == [kind |-> "none"]
NewMessage == [url |-> None, st |-> "new", answers |-> 0, answer |-> NoAnswer,
               how |-> "none"]

\* the background script has not run
NoLink == [fn |-> "none"]
NoBackground ==
  /\ ui = NoLink
  /\ firstSeen = <<>>
  /\ imageCache = << >>
  /\ messages = [m \in 1..MaxMsgs |-> NewMessage]

\* new ProductOverlayManager()
P_Init ==
  /\ manager = "P"
  /\ NoBackground
  /\ InitPage \/ InitSliderPage \/ InitContentsPage
  /\ Constructed([New EXCEPT !.initialTimer = initialLoadDelay])
  /\ burst = {}
  /\ burstAge = 0
  /\ failedUrls = {}
  /\ last = [op |-> "init"]

SpecP == P_Init /\ [][P_Next]_vars

\* ------------- ProductOverlayManager and the records of its own changes
\* Above, an overlay is an opaque element.  Here the body observer also
\* receives the childList records of `overlay.remove()` and
\* `container.appendChild(overlay)`, and an overlay built from a hit holds,
\* in its tooltip, the product image Tip inside the element TipBox.
TipBox == "tipbox"

\* the element is in a subtree the body observer watches
F_Observed(E, c) ==
  IF c = TipBox
  THEN \E o \in E.ovl : o.data.kind = "hit" /\ o.img # Tip /\ Observed(o.cont)
  ELSE Observed(c)

\* the overlays of S in the order they were built
RECURSIVE F_inOrder(_)
F_inOrder(S) ==
  IF S = {} THEN <<>>
  ELSE LET o == CHOOSE x \in S : \A y \in S : x.id <= y.id
       IN <<o>> \o F_inOrder(S \ {o})

\* the records of a handler's own overlay.remove() and appendChild calls
F_ownRecords(E) ==
  LET gone == SelectSeq(F_inOrder(ovl \ E.ovl),
                        LAMBDA o : F_Observed(E, o.cont))
      made == SelectSeq(F_inOrder(E.ovl \ ovl),
                        LAMBDA o : F_Observed(E, o.cont))
  IN [E EXCEPT !.records =
        @ \o [k \in 1..Len(gone) |-> ChildListRemoved(OvNode(gone[k].data))]
          \o [k \in 1..Len(made) |-> ChildListAdded(OvNode(made[k].data))]]

F_Tick ==
  /\ manager = "F"
  /\ Idle
  /\ initialTimer > 0
  /\ initialTimer' = Elapse(initialTimer, TickMsQ)
  /\ last' = [op |-> "Tick"]
  /\ UNCHANGED <<manager, auxVars, domVars, slideObservers, slideRecords, records,
                 transient, hostOps, cache, calls, processingTimeout,
                 overlays, ovl, processingUrls, pendingImages, processQueue,
                 isProcessing, mutationTimeout, mutationBatch, queueTimers,
                 burst, burstAge, failedUrls, left, unhandled>>

F_MutationCallback ==
  /\ manager = "F"
  /\ records # <<>>
  /\ Commit(F_ownRecords([P_observerCallback(Cur, records)
                            EXCEPT !.records = <<>>]))
  /\ transient' = {}
  /\ left' = {}
  /\ last' = [op |-> "F_MutationCallback", nodes |-> records]
  /\ UNCHANGED <<manager, auxVars, domVars, hostOps, burst, burstAge,
                 failedUrls, unhandled>>

F_InitialScan ==
  /\ manager = "F"
  /\ Idle
  /\ initialTimer = 0
  /\ Commit(processExistingImages(Cur))
  /\ last' = [op |-> "F_InitialScan"]
  /\ UNCHANGED <<manager, auxVars, domVars, transient, hostOps, burst, burstAge,
                 failedUrls, left, unhandled>>

F_Response(c) ==
  /\ manager = "F"
  /\ Idle
  /\ c \in Fetching
  /\ Commit(F_ownRecords(P_response(Cur, c)))
  /\ last' = [op |-> "F_Response", call |-> c]
  /\ UNCHANGED <<manager, auxVars, domVars, transient, hostOps, burst, burstAge,
                 failedUrls, left, unhandled>>

F_Failure(c) ==
  /\ manager = "F"
  /\ Idle
  /\ c \in Fetching
  /\ Commit(F_ownRecords(P_failed(Cur, c)))
  /\ last' = [op |-> "F_Failure", call |-> c]
  /\ UNCHANGED <<manager, auxVars, domVars, transient, hostOps, burst, burstAge,
                 failedUrls, left, unhandled>>

F_Next ==
  \/ manager = "F" /\ \E i \in Imgs : HostRemoveImg(i)
  \/ F_Tick
  \/ F_MutationCallback
  \/ F_InitialScan
  \/ \E c \in Fetching : F_Response(c)
  \/ \E c \in Fetching : F_Failure(c)

\* new ProductOverlayManager() on a page with a hit and a miss
F_Init ==
  /\ manager = "F"
  /\ NoBackground
  /\ parentOf = [i \in Imgs \cup {Tip} |->
                  IF i = Tip THEN TipBox ELSE IF i = "i1" THEN Body ELSE "c1"]
  /\ classes = [c \in Conts |-> {}]
  /\ boxless = {}
  /\ attached = Conts
  /\ src = [i \in Imgs \cup {Tip} |->
             IF i = Tip THEN TipUrl ELSE IF i = "i1" THEN "a" ELSE "b"]
  /\ rect = [i \in Imgs |-> 300]
  /\ records = <<>>
  /\ transient = {}
  /\ hostOps = 0
  /\ left = {}
  /\ unhandled = {}
  /\ Constructed([New EXCEPT !.overlays = [i \in Imgs \cup {Tip} |-> 0],
                             !.initialTimer = initialLoadDelay])
  /\ burst = {}
  /\ burstAge = 0
  /\ failedUrls = {}
  /\ last = [op |-> "init"]

SpecF == F_Init /\ [][F_Next]_vars

\* ---------------------------------------- OverlayManager (queue) reactions
Decrement(ts) == [k \in 1..Len(ts) |-> Elapse(ts[k], TickMsQ)]

Q_timers == {mutationTimeout} \cup Range(queueTimers)

Q_Tick ==
  /\ manager = "Q"
  /\ Idle
  /\ 0 \notin Q_timers
  /\ Q_timers \notin {{Off}, {}}
  /\ mutationTimeout' = Elapse(mutationTimeout, TickMsQ)
  /\ queueTimers' = Decrement(queueTimers)
  /\ last' = [op |-> "Tick"]
  /\ UNCHANGED <<manager, auxVars, domVars, slideObservers, slideRecords, records,
                 transient, hostOps, cache, calls,
                 overlays, ovl, processingUrls, pendingImages,
                 processingTimeout, initialTimer, processQueue, isProcessing,
                 mutationBatch, burst, burstAge, failedUrls, left, unhandled>>

\* the records that report a change the host made
HostRecords(ms) ==
  {ms[k] : k \in {j \in 1..Len(ms) :
      Range(ms[j].addedNodes) \cup Range(ms[j].removedNodes) \cup {ms[j].target}
        \subseteq Imgs \cup Conts \cup {None}}}

\* the images a list of records hands to processNode
Handed(ms) ==
  {i \in Imgs : \E k \in 1..Len(ms) :
      \/ i \in Range(ms[k].addedNodes)
      \/ parentOf[i] \in Range(ms[k].addedNodes)
      \/ ms[k].target \in {i, parentOf[i]}}

Q_MutationCallback ==
  /\ manager = "Q"
  /\ records # <<>>
  /\ Commit([Q_observerCallback(Cur, records) EXCEPT !.records = <<>>])
  /\ transient' = {}
  /\ left' = {}
  /\ unhandled' = unhandled \cup HostRecords(records)
  /\ last' = [op |-> "Q_MutationCallback", removed |-> left]
  /\ UNCHANGED <<manager, auxVars, domVars, hostOps, burst, burstAge, failedUrls>>

Q_MutationTimer ==
  /\ manager = "Q"
  /\ Idle
  /\ mutationTimeout = 0
  /\ Commit(Q_mutationTimer(Cur))
  /\ unhandled' = unhandled \ Range(mutationBatch)
  /\ last' = [op |-> "Q_MutationTimer", handed |-> Handed(mutationBatch)]
  /\ UNCHANGED <<manager, auxVars, domVars, transient, hostOps, burst, burstAge,
                 failedUrls, left>>

Q_QueueTimer ==
  /\ manager = "Q"
  /\ Idle
  /\ queueTimers # <<>>
  /\ Head(queueTimers) = 0
  /\ Commit(Q_queueTimer(Cur))
  /\ last' = [op |-> "Q_QueueTimer"]
  /\ UNCHANGED <<manager, auxVars, domVars, transient, hostOps, burst, burstAge,
                 failedUrls, left, unhandled>>

Q_Response(c) ==
  /\ manager = "Q"
  /\ Idle
  /\ c \in Fetching
  /\ Commit(Q_response(Cur, c))
  /\ last' = Resolved("Q_Response", c, Result(c.url), Q_response(Cur, c))
  /\ UNCHANGED <<manager, auxVars, domVars, transient, hostOps, burst, burstAge,
                 failedUrls, left, unhandled>>

Q_Failure(c) ==
  /\ manager = "Q"
  /\ Idle
  /\ c \in Fetching
  /\ Commit(Q_failed(Cur, c))
  /\ failedUrls' = failedUrls \cup {c.url}
  /\ last' = Resolved("Q_Failure", c, ErrorData, Q_failed(Cur, c))
  /\ UNCHANGED <<manager, auxVars, domVars, transient, hostOps, burst, burstAge,
                 left, unhandled>>

\* a response arrives with a body that is not what the backend promises
Q_Malformed(c, k) ==
  /\ manager = "Q"
  /\ Idle
  /\ c \in Fetching
  /\ Commit(Q_malformed(Cur, c, k))
  /\ last' = Resolved("Q_Malformed", c, Payload(c.url, k), Q_malformed(Cur, c, k))
  /\ UNCHANGED <<manager, auxVars, domVars, transient, hostOps, burst, burstAge,
                 failedUrls, left, unhandled>>

\* a call that needs no response resumes as a microtask
Q_Resume(c) ==
  /\ manager = "Q"
  /\ c \in Ready
  /\ Commit(IF c.st = "skip" THEN Q_finished(Cur, c)
            ELSE Q_resolved(Cur, c, c.data))
  /\ last' = IF c.st = "skip" THEN [op |-> "Q_Skip"]
             ELSE Resolved("Q_Resume", c, c.data, Q_resolved(Cur, c, c.data))
  /\ UNCHANGED <<manager, auxVars, domVars, transient, hostOps, burst, burstAge,
                 failedUrls, left, unhandled>>

Q_Next ==
  \/ manager = "Q" /\ Host
  \/ manager = "Q" /\ \E i \in Imgs, r \in Sizes : HostResize(i, r)
  \/ Q_Tick
  \/ Q_MutationCallback
  \/ Q_MutationTimer
  \/ Q_QueueTimer
  \/ \E c \in Fetching : Q_Response(c)
  \/ \E c \in Fetching : Q_Failure(c)
  \/ \E c \in Fetching, k \in BadKinds : Q_Malformed(c, k)
  \/ \E c \in Ready : Q_Resume(c)

\* new OverlayManager()
Q_Init ==
  /\ manager = "Q"
  /\ NoBackground
  /\ InitPage \/ InitContentsPage
  /\ \E visible \in SUBSET Imgs : Constructed(Q_processExistingImages(New, visible))
  /\ burst = {}
  /\ burstAge = 0
  /\ failedUrls = {}
  /\ last = [op |-> "init"]

SpecQ == Q_Init /\ [][Q_Next]_vars

\* a request completes, with a result or with an error
Q_Completion ==
  \E c \in Fetching : Q_Response(c) \/ Q_Failure(c)

\* the event loop runs: microtasks run, time passes, timers that are due
\* fire, and every request completes
Q_Fairness ==
  /\ WF_vars(\E c \in Ready : Q_Resume(c))
  /\ WF_vars(Q_MutationCallback)
  /\ WF_vars(Q_Tick)
  /\ WF_vars(Q_MutationTimer)
  /\ WF_vars(Q_QueueTimer)
  /\ WF_vars(Q_Completion)

\* new OverlayManager() on a page whose two images have different sources
\* and are both in the viewport
Q_LiveInit ==
  /\ manager = "Q"
  /\ NoBackground
  /\ InitPage
  /\ src["i2"] = "b"
  /\ Constructed(Q_processExistingImages(New, Imgs))
  /\ burst = {}
  /\ burstAge = 0
  /\ failedUrls = {}
  /\ last = [op |-> "init"]

\* the queue's reactions, with a host that only changes the source of images
Q_LiveNext ==
  \/ manager = "Q" /\ \E i \in Imgs : \E u \in SrcsOf(i) : HostSetSrc(i, u)
  \/ Q_Tick
  \/ Q_MutationCallback
  \/ Q_MutationTimer
  \/ Q_QueueTimer
  \/ Q_Completion
  \/ \E c \in Ready : Q_Resume(c)

SpecQLive == Q_LiveInit /\ [][Q_LiveNext]_vars /\ Q_Fairness

\* ------------------------- OverlayManager (browser-extension2) reactions
E2_MutationCallback ==
  /\ manager = "E2"
  /\ records # <<>>
  /\ Commit([E2_observerCallback(Cur, records) EXCEPT !.records = <<>>])
  /\ transient' = {}
  /\ left' = {}
  /\ last' = [op |-> "E2_MutationCallback", removed |-> left]
  /\ UNCHANGED <<manager, auxVars, domVars, hostOps, burst, burstAge, failedUrls,
                 unhandled>>

E2_Response(c) ==
  /\ manager = "E2"
  /\ Idle
  /\ c \in Fetching
  /\ Commit(E2_response(Cur, c))
  /\ last' = Resolved("E2_Response", c, Result(c.url), E2_response(Cur, c))
  /\ UNCHANGED <<manager, auxVars, domVars, transient, hostOps, burst, burstAge,
                 failedUrls, left, unhandled>>

E2_Malformed(c, k) ==
  /\ manager = "E2"
  /\ Idle
  /\ c \in Fetching
  /\ Commit(E2_malformed(Cur, c, k))
  /\ last' = Resolved("E2_Malformed", c, Payload(c.url, k),
                      E2_malformed(Cur, c, k))
  /\ UNCHANGED <<manager, auxVars, domVars, transient, hostOps, burst, burstAge,
                 failedUrls, left, unhandled>>

E2_Failure(c) ==
  /\ manager = "E2"
  /\ Idle
  /\ c \in Fetching
  /\ Commit(E2_failed(Cur, c))
  /\ failedUrls' = failedUrls \cup {c.url}
  /\ last' = Resolved("E2_Failure", c, ErrorData, E2_failed(Cur, c))
  /\ UNCHANGED <<manager, auxVars, domVars, transient, hostOps, burst, burstAge,
                 left, unhandled>>

\* a call that needs no response resumes as a microtask
E2_Resume(c) ==
  /\ manager = "E2"
  /\ c \in Ready
  /\ Commit(IF c.st = "skip" THEN E2_skipped(Cur, c)
            ELSE E2_resolved(Cur, c, c.data))
  /\ last' = IF c.st = "skip" THEN [op |-> "E2_Skip"]
             ELSE Resolved("E2_Resume", c, c.data, E2_resolved(Cur, c, c.data))
  /\ UNCHANGED <<manager, auxVars, domVars, transient, hostOps, burst, burstAge,
                 failedUrls, left, unhandled>>

E2_Next ==
  \/ manager = "E2" /\ Host
  \/ E2_MutationCallback
  \/ \E c \in Fetching : E2_Response(c)
  \/ \E c \in Fetching, k \in BadKinds : E2_Malformed(c, k)
  \/ \E c \in Fetching : E2_Failure(c)
  \/ \E c \in Ready : E2_Resume(c)

\* new OverlayManager()
E2_Init ==
  /\ manager = "E2"
  /\ NoBackground
  /\ InitPage
  /\ Constructed(E2_processExistingImages(New, documentImages))
  /\ burst = {}
  /\ burstAge = 0
  /\ failedUrls = {}
  /\ last = [op |-> "init"]

SpecE2 == E2_Init /\ [][E2_Next]_vars

\* ------------------------------------- background script (background.js)
\* what the backend sends with an ok status: well-formed JSON with or without
\* a masks field, or text that response.json() rejects
BodyFull(u) == [exists |-> TRUE, has_product_masks |-> u = "a",
                masks |-> IF u = "a" THEN <<"m1">> ELSE <<>>]
BodyBare(u) == [exists |-> FALSE, has_product_masks |-> FALSE]
NotJson     == [text |-> "<html>"]
Bodies(u)   == {BodyFull(u), BodyBare(u), NotJson}

\* why a lookup fails: fetch rejects, or the status is not ok
FetchErrors == {"Failed to fetch", "HTTP error! status: 500"}
JsonError   == "Unexpected token < in JSON"

\* checkImage after response.json(): the object it returns
Parsed(data) ==
  [kind |-> "result", exists |-> data.exists,
   hasProductMasks |-> data.has_product_masks,
   masks |-> IF "masks" \in DOMAIN data THEN data.masks ELSE <<>>,
   error |-> "null"]

\* the errorResponse literal of the listener's catch
ErrorResponse(msg) ==
  [kind |-> "result", exists |-> FALSE, hasProductMasks |-> FALSE,
   masks |-> <<>>, error |-> msg]

\* sendResponse(v) on message m
sendResponse(M, m, v, how) ==
  [M EXCEPT ![m].answers = @ + 1, ![m].answer = v, ![m].how = how,
            ![m].st = "done"]

\* the catch of the listener without imageCache.set
B_catch_uncached(C, M, m, msg) ==
  [cache |-> C, msgs |-> sendResponse(M, m, ErrorResponse(msg), "fail")]

\* the onMessage listener up to its return
B_listener(C, M, m, u) ==
  IF u \in DOMAIN C
  THEN [cache |-> C, msgs |-> sendResponse([M EXCEPT ![m].url = u], m, C[u],
                                           "hit")]
  ELSE [cache |-> C, msgs |-> [M EXCEPT ![m].url = u, ![m].st = "fetch"]]

\* .then(data => ...)
B_then(C, M, m, data) ==
  [cache |-> MapSet(C, M[m].url, data),
   msgs |-> sendResponse(M, m, data, "ok")]

\* .catch(error => ...)
B_catch(C, M, m, msg) ==
  [cache |-> MapSet(C, M[m].url, ErrorResponse(msg)),
   msgs |-> sendResponse(M, m, ErrorResponse(msg), "fail")]

\* checkImage from its fetch on: the body is parsed, or the promise rejects
B_checkImage(C, M, m, body) ==
  IF "exists" \in DOMAIN body THEN B_then(C, M, m, Parsed(body))
  ELSE B_catch(C, M, m, JsonError)

pageVars == <<parentOf, attached, src, rect, classes, boxless, slideObservers,
              slideRecords, records, transient, hostOps,
              cache, calls, overlays, ovl, processingUrls, pendingImages,
              processingTimeout, initialTimer, processQueue, isProcessing,
              mutationTimeout, mutationBatch, queueTimers, burst, burstAge,
              firstSeen, failedUrls, left, unhandled>>

B_Commit(R) == imageCache' = R.cache /\ messages' = R.msgs

\* a content script sends { type: 'CHECK_IMAGE', imageUrl: u }
B_Message(m, u) ==
  /\ manager = "B"
  /\ messages[m].st = "new"
  /\ \A k \in 1..(m - 1) : messages[k].st # "new"
  /\ B_Commit(B_listener(imageCache, messages, m, u))
  /\ last' = [op |-> "B_Message", msg |-> m, url |-> u,
              hit |-> u \in DOMAIN imageCache]
  /\ UNCHANGED <<manager, pageVars, ui>>

\* the backend answers with an ok status
B_Response(m, body) ==
  /\ manager = "B"
  /\ messages[m].st = "fetch"
  /\ B_Commit(B_checkImage(imageCache, messages, m, body))
  /\ last' = [op |-> "B_Response", msg |-> m, url |-> messages[m].url,
              body |-> body]
  /\ UNCHANGED <<manager, pageVars, ui>>

\* fetch rejects, or the status is not ok: checkImage throws
B_Failure(m, msg) ==
  /\ manager = "B"
  /\ messages[m].st = "fetch"
  /\ B_Commit(B_catch(imageCache, messages, m, msg))
  /\ last' = [op |-> "B_Failure", msg |-> m, url |-> messages[m].url,
              error |-> msg]
  /\ UNCHANGED <<manager, pageVars, ui>>

B_Next ==
  \/ \E m \in 1..MaxMsgs, u \in Urls : B_Message(m, u)
  \/ \E m \in 1..MaxMsgs : \E body \in Bodies(messages[m].url) :
        B_Response(m, body)
  \/ \E m \in 1..MaxMsgs, msg \in FetchErrors : B_Failure(m, msg)

\* the service worker starts: no page is modelled with it
B_Init ==
  /\ manager = "B"
  /\ NoBackground
  /\ parentOf = [i \in Imgs |-> None]
  /\ classes = [c \in Conts |-> {}]
  /\ boxless = {}
  /\ attached = {}
  /\ src = [i \in Imgs |-> NoSrc]
  /\ rect = [i \in Imgs |-> 300]
  /\ records = <<>>
  /\ transient = {}
  /\ hostOps = 0
  /\ left = {}
  /\ unhandled = {}
  /\ Constructed(New)
  /\ burst = {}
  /\ burstAge = 0
  /\ failedUrls = {}
  /\ last = [op |-> "init"]

SpecB == B_Init /\ [][B_Next]_vars

\* ------------------------------------------------------- link rendering
\* Coordinates are counted in thousandths: a point's x = 500 is 0.5, and a
\* style of left = 50000 is "50%".  Pixel sizes are whole pixels.
Fractions == {0, 250, 500, 1000}
Points    == [x : Fractions, y : Fractions]
Pixels    == {200, 400}
Boxes     == [width : Pixels, height : Pixels]

\* uiComponents.js createProductLink: `${detection.point.x * 100}%`
createProductLink(point, box) ==
  [left |-> point.x * 100, top |-> point.y * 100]

\* content.js UIComponents.createProductLink:
\* `${(x / containerRect.width) * 100}%`, box = container.getBoundingClientRect()
P_createProductLink(point, box) ==
  [left |-> (point.x * 100) \div box.width,
   top |-> (point.y * 100) \div box.height]

\* browser-extension2 createOverlay:
\* mask.point.x / imgElement.naturalWidth * 100 + '%', box = natural size
E2_maskPosition(point, box) ==
  [left |-> (point.x * 100) \div box.width,
   top |-> (point.y * 100) \div box.height]

Rendered(fn, point, box, style) ==
  [fn |-> fn, point |-> point, box |-> box, style |-> style]

\* the detections a result may carry
\* a product_url is a string, here of tokens; two are enough to tell products
\* apart, and the second holds the five characters of a character reference
Quote         == "\""
Amp           == "&"
AmpRef        == "&amp;"
Products      == {<<"p", "1">>, <<"p", AmpRef, "2">>}
SeqsUpTo(S, n) == UNION {[1..k -> S] : k \in 0..n}
Detections    == [point : {[x |-> 500, y |-> 250], [x |-> 0, y |-> 1000]},
                  product_predictions : SeqsUpTo(Products, MaxPredictions)]

\* the value the HTML parser reads back for data-url="${product.product_url}"
\* set through innerHTML: a double-quoted attribute ends at the first quote,
\* and a character reference in it is replaced by its character
RECURSIVE AttributeValue(_)
AttributeValue(url) ==
  IF url = <<>> \/ Head(url) = Quote THEN <<>>
  ELSE <<IF Head(url) = AmpRef THEN Amp ELSE Head(url)>>
         \o AttributeValue(Tail(url))

\* uiComponents.js createProductLink: href from product_predictions[0], one
\* tooltip entry per prediction through Array.map, each with its data-url
createProductLink_whole(detection) ==
  IF detection.product_predictions = <<>>
  THEN [thrown |-> TRUE]
  ELSE [thrown |-> FALSE,
        href |-> detection.product_predictions[1],
        style |-> createProductLink(detection.point, None),
        tooltip |-> [k \in 1..Len(detection.product_predictions) |->
                       detection.product_predictions[k]],
        dataset |-> [k \in 1..Len(detection.product_predictions) |->
                       AttributeValue(detection.product_predictions[k])]]

\* OverlayManager.createOverlay from data.detections on: the overlay element
\* with its class and its children, or the exception that leaves it unbuilt
RECURSIVE Q_appendLinks(_, _)
Q_appendLinks(overlay, ds) ==
  IF ds = <<>> \/ overlay.thrown THEN overlay
  ELSE LET productLink == createProductLink_whole(Head(ds)) IN
       IF productLink.thrown THEN [overlay EXCEPT !.thrown = TRUE]
       ELSE Q_appendLinks([overlay EXCEPT !.links = Append(@, productLink)],
                          Tail(ds))

\* the overlay with `overlay.classList.add('no-products')` outside its test
Q_overlayElement_marked(ds) ==
  Q_appendLinks([thrown |-> FALSE, noProducts |-> TRUE, links |-> <<>>], ds)

Q_overlayElement(ds) ==
  Q_appendLinks([thrown |-> FALSE, noProducts |-> Len(ds) = 0, links |-> <<>>],
                ds)

\* the click listener of the k-th tooltip entry of link j:
\* `link.href = content.dataset.url`
click(links, j, k) ==
  [links EXCEPT ![j].href = links[j].dataset[k]]

\* a click on a tooltip entry of an overlay that was built; one per run
U_Click(j, k) ==
  /\ manager = "U"
  /\ ui.fn = "createOverlay"
  /\ ~ui.overlay.thrown
  /\ j \in 1..Len(ui.overlay.links)
  /\ k \in 1..Len(ui.overlay.links[j].dataset)
  /\ LET links == click(ui.overlay.links, j, k) IN
       ui' = [fn |-> "click", detections |-> ui.detections,
              link |-> j, entry |-> k, before |-> ui.overlay.links,
              links |-> links,
              opened |-> links[j].href]     \* window.open(link.href, '_blank')
  /\ last' = [op |-> "U_Click"]
  /\ UNCHANGED <<manager, imageCache, messages, pageVars>>

\* one rendering call per run
U_Render(R) ==
  /\ manager = "U"
  /\ ui = NoLink
  /\ ui' = R
  /\ last' = [op |-> "U_Render"]
  /\ UNCHANGED <<manager, imageCache, messages, pageVars>>

U_Next ==
  \/ /\ ui = NoLink
     /\ \E pt \in Points, box \in Boxes :
          U_Render(Rendered("uiComponents", pt, box, createProductLink(pt, box)))
  \/ /\ ui = NoLink
     /\ \E pt \in Points, box \in Boxes :
          U_Render(Rendered("content", pt, box, P_createProductLink(pt, box)))
  \/ /\ ui = NoLink
     /\ \E pt \in Points, box \in Boxes :
          U_Render(Rendered("content2", pt, box, E2_maskPosition(pt, box)))
  \/ /\ ui = NoLink
     /\ \E ds \in SeqsUpTo(Detections, MaxDetections) :
          U_Render([fn |-> "createOverlay", detections |-> ds,
                    overlay |-> Q_overlayElement(ds)])
  \/ \E j \in 1..MaxDetections, k \in 1..MaxPredictions : U_Click(j, k)

\* no link has been rendered
U_Init ==
  /\ manager = "U"
  /\ NoBackground
  /\ parentOf = [i \in Imgs |-> None]
  /\ classes = [c \in Conts |-> {}]
  /\ boxless = {}
  /\ attached = {}
  /\ src = [i \in Imgs |-> NoSrc]
  /\ rect = [i \in Imgs |-> 300]
  /\ records = <<>>
  /\ transient = {}
  /\ hostOps = 0
  /\ left = {}
  /\ unhandled = {}
  /\ Constructed(New)
  /\ burst = {}
  /\ burstAge = 0
  /\ failedUrls = {}
  /\ last = [op |-> "init"]

SpecU == U_Init /\ [][U_Next]_vars

\* the content scripts on their page
Init == P_Init \/ Q_Init \/ E2_Init
Next == P_Next \/ Q_Next \/ E2_Next
Spec == Init /\ [][Next]_vars

\* ================================================================ claims
OverlaysOf(i) == {o \in ovl : o.img = i}
AttachedOverlaysOf(i) == {o \in OverlaysOf(i) : InDocument(o.cont)}
IsValidImage(i) == IF manager = "P" THEN P_isValidImage(i) ELSE Q_isValidImage(i)
\* image i waits for a lookup result: a call for it is suspended, or it is queued
Waiting(i) == (\E c \in Suspended : c.img = i) \/ i \in Range(processQueue)

\* C1: in every reachable state of either manager each image has at most one
\* overlay element attached to the document, and the overlays map (a function
\* of the image) binds it to at most one overlay, which is an element built
\* for that image.
C1_OneOverlayPerImage ==
  \A i \in Imgs :
    /\ Cardinality(AttachedOverlaysOf(i)) <= 1
    /\ overlays[i] # 0 => \A o \in ovl : o.id = overlays[i] => o.img = i

\* C1 witness: an overlay was built for an attached image that already had
\* one, and one overlay of that image is attached.
C1_Witness ==
  /\ last.op \in ResolveOps
  /\ last.before # 0
  /\ last.created
  /\ Cardinality(AttachedOverlaysOf(last.call.img)) = 1

\* C2: ProductOverlayManager: an image that had a binding and no lookup in
\* flight or pending, and that left the document (removed itself or inside a
\* removed subtree), has no binding and no overlay element once the mutation
\* callback reporting the removal has run.
C2_RemovalPurges ==
  last.op = "P_MutationCallback" =>
    \A i \in (last.removed \cap last.bound) \ last.busy :
      overlays[i] = 0 /\ OverlaysOf(i) = {}

\* C2 witness: the callback ran for a bound, idle image that was removed
\* inside its container.
C2_Witness ==
  /\ last.op = "P_MutationCallback"
  /\ \E i \in (last.removed \cap last.bound) \ last.busy : parentOf[i] \in Conts

\* C3 (as claimed): a lookup result that arrives for an image that is no
\* longer in the document builds no overlay and records no binding.
C3_RemovedWins ==
  (last.op \in ResolveOps /\ ~last.inDoc) => ~last.created

\* C4 (as claimed): at most one request per url is in flight.
C4_OneRequestPerUrl == \A u \in Urls : InFlight(u) <= 1

\* C5 (as claimed): an image handed to processImage / processNode while the
\* lookup of its url is in flight for another element is not dropped: it
\* waits for the result.
C5_SameUrlNotDropped ==
  last.op \in {"P_Flush", "P_InitialScan", "P_MutationCallback", "Q_MutationTimer"} =>
    \A i \in last.handed :
      (IsValidImage(i) /\ \E c \in Fetching : c.url = src[i] /\ c.img # i)
        => Waiting(i)

\* C6 (as claimed): no request is issued for a url whose lookup has failed.
C6_FailureCached ==
  [][\A u \in failedUrls : InFlightIn(calls', u) <= InFlightIn(calls, u)]_vars

\* C7: ProductOverlayManager: the candidates that arrive within less than the
\* debounce window of the first one are flushed together and once: no flush
\* happens before the window has passed, the flush holds all of them, and it
\* leaves the pending set empty and the timer off; while candidates are
\* pending the timer is armed.
C7_DebounceCoalesces ==
  /\ processingTimeout # Off =>
       processingTimeout + burstAge >= processingDebounceDelay
  /\ pendingImages # <<>> => processingTimeout # Off
  /\ last.op = "P_Flush" =>
       /\ last.burst \subseteq Range(last.batch)
       /\ last.age >= processingDebounceDelay
       /\ pendingImages = <<>>
       /\ processingTimeout = Off

\* C7 witness: a flush of two candidates that arrived in separate callbacks
\* within the window.
C7_Witness == last.op = "P_Flush" /\ Cardinality(last.burst) >= 2

\* createOverlay (queue) is called with a result for an image in the document
\* that is bound to an overlay built from the same result
C8_SecondCall ==
  /\ last.op \in {"Q_Response", "Q_Resume"}
  /\ last.before # 0
  /\ last.inDoc
  /\ last.prior = last.data

C9_RemovalSynchronous ==
  last.op = "Q_MutationCallback" =>
    \A i \in last.removed : overlays[i] = 0 /\ AttachedOverlaysOf(i) = {}

\* C10 (as claimed): OverlayManager (queue): every record of a host mutation
\* that was delivered and not yet acted on is held by the armed mutation
\* timer, so none is discarded.
C10_NoRecordDiscarded ==
  /\ unhandled \subseteq Range(mutationBatch)
  /\ unhandled # {} => mutationTimeout # Off

\* C11: a call of checkImage for a cached url resolves with the cached value
\* and sends no request: every call that resumes without a response carries
\* the cache's value for its url, and once a url is cached no step raises the
\* number of requests in flight for it (the cache is never cleared).
C11_CacheHit ==
  /\ [](\A c \in Suspended : c.st = "ready" =>
          c.url \in DOMAIN cache /\ c.data = cache[c.url])
  /\ [][\A u \in DOMAIN cache : InFlightIn(calls', u) <= InFlightIn(calls, u)]_vars

\* C11 witness: processImage was called for a cached url and waits to resume.
C11_Witness == \E c \in Suspended : c.st = "ready" /\ c.url \in DOMAIN cache

\* C12 (as claimed): the result handed to overlay creation after a failed
\* lookup carries a detections list.
C12_FailureHasDetections ==
  last.op \in {"P_Failure", "Q_Failure"} => HasDetections(last.data)

\* C13 (as claimed): OverlayManager (queue): a lookup result applied to an
\* image whose rendered box is then smaller than the minimum size builds no
\* overlay.
C13_SmallNeverOverlaid ==
  (last.op \in {"Q_Response", "Q_Resume", "Q_Failure"}
     /\ RectOf(last.call.img) < minImageSize) => ~last.created

\* C14 (as claimed): ProductOverlayManager: no lookup starts inside the
\* mutation callback: the callback leaves the suspended processImage calls
\* as they were.
C14_NoLookupInCallback ==
  [][last'.op = "P_MutationCallback" => calls' = calls]_vars

\* C15 (as claimed): ProductOverlayManager: a mutation callback that runs
\* while the debounce timer is armed does not restart it.
C15_TimerNotRestarted ==
  [][(last'.op = "P_MutationCallback" /\ processingTimeout # Off)
       => processingTimeout' = processingTimeout]_vars

\* C15 (amended): ProductOverlayManager: every mutation callback that finds a
\* candidate arms the debounce timer at the full delay, also while it is
\* running, so the flush comes one delay after the last such callback; a
\* callback without candidates leaves the timer as it is.
C15_TimerRestarted ==
  [][last'.op = "P_MutationCallback" =>
       processingTimeout' = IF Candidates(records) # {}
                            THEN processingDebounceDelay
                            ELSE processingTimeout]_vars

\* C15 witness: a callback found a candidate part-way through the window of
\* an earlier one, and the timer stands at the full delay again.
C15_Witness ==
  /\ last.op = "P_MutationCallback"
  /\ burstAge > 0
  /\ burstAge < processingDebounceDelay
  /\ processingTimeout = processingDebounceDelay

\* OverlayManager (queue) has nothing left to do: no record, lookup, timer
\* or queued image is pending
Q_Quiescent ==
  /\ manager = "Q"
  /\ Idle
  /\ calls = EmptyBag
  /\ mutationTimeout = Off
  /\ queueTimers = <<>>
  /\ processQueue = <<>>

\* C16 (as claimed): OverlayManager (queue): once everything has completed,
\* the overlay bound to an image in the document is built from the lookup
\* result for the src the image has now.
C16_SrcChangeRebuilds ==
  Q_Quiescent =>
    \A i \in Imgs : (ImgInDocument(i) /\ overlays[i] # 0) =>
      \A o \in ovl : o.id = overlays[i] => o.data.url = src[i]

\* C17 (as claimed): ProductOverlayManager: processingUrls holds exactly the
\* urls of the processImage calls that have not finished.
C17_ProcessingUrlsExact ==
  manager = "P" => processingUrls = {c.url : c \in Suspended}

\* C18 (as claimed): whenever overlays holds a binding for an element, the
\* bound overlay element has been appended to its container.
C18_BoundIsAppended ==
  \A i \in Imgs : overlays[i] # 0 => \E o \in ovl : o.id = overlays[i]

\* C19 (as claimed): no reaction that applies a lookup result or a lookup
\* failure ends with an exception nobody caught.
C19_NothingUnhandled == last.op \in ResolveOps => ~last.raised

\* C20 (as claimed): ProductOverlayManager: once the class observers have
\* run, every overlay in a swiper-slide container is displayed as a block
\* exactly when the container has an active, next or prev class, and is
\* hidden otherwise.
C20_SlideVisibility ==
  (manager = "P" /\ slideRecords = {}) =>
    \A o \in ovl : SlideClass \in ClassList(o.cont) =>
      o.display = IF ClassList(o.cont) \cap ActiveClasses # {} THEN "block"
                  ELSE "none"

\* C21 (as claimed): ProductOverlayManager: when the mutation callback has
\* handled the removal of a swiper-slide container, as the removed node or
\* inside a removed subtree, no slideObservers entry is left for it.
C21_SlideObserverTornDown ==
  (manager = "P" /\ last.op = "P_MutationCallback") =>
    \A c \in last.slidesLeft : slideObservers[c] = 0

\* C22: background script: a message is answered at most once, and exactly
\* once when its listener or its lookup has finished; the answer is the cached
\* value on a hit, the parsed result on success, and on a fetch error, a bad
\* status or a body that is not JSON the failure literal (exists false,
\* hasProductMasks false, masks empty, the error message), which is then in
\* the cache; and no request is started for a url that has a cache entry.
C22_Answer(m) ==
  LET msg == messages[m] IN
  /\ msg.answers = IF msg.st = "done" THEN 1 ELSE 0
  /\ msg.how = "fail" =>
        /\ ~msg.answer.exists /\ ~msg.answer.hasProductMasks
        /\ msg.answer.masks = <<>> /\ msg.answer.error # "null"
  /\ msg.how = "ok" => msg.answer.error = "null"
  /\ msg.st = "done" => msg.url \in DOMAIN imageCache

C22_Step(m) ==
  LET old == messages[m]
      new == messages'[m]
  IN /\ (old.st = "new" /\ new.st = "done") =>
          new.url \in DOMAIN imageCache /\ new.answer = imageCache[new.url]
     /\ (old.st = "new" /\ new.st = "fetch") =>
          new.url \notin DOMAIN imageCache
     /\ (old.st = "fetch" /\ new.st = "done") =>
          /\ new.url \in DOMAIN imageCache'
          /\ imageCache'[new.url] = new.answer
          /\ new.how = "ok" =>
                \E b \in Bodies(new.url) : "exists" \in DOMAIN b
                                             /\ new.answer = Parsed(b)
     /\ old.st = "done" => new = old

C22_AnsweredOnce ==
  /\ [](manager = "B" => \A m \in 1..MaxMsgs : C22_Answer(m))
  /\ [][manager = "B" => \A m \in 1..MaxMsgs : C22_Step(m)]_vars

\* C22 witness: a lookup has failed and a later message for the same url was
\* answered from the cache with the failure
C22_Witness ==
  /\ manager = "B"
  /\ \E m, k \in 1..MaxMsgs :
        /\ messages[m].how = "fail" /\ messages[k].how = "hit"
        /\ messages[k].url = messages[m].url
        /\ messages[k].answer = messages[m].answer

\* C23 (as claimed): in every variant of link rendering a point (x, y) is
\* placed at left = x * 100 % and top = y * 100 %, whatever the pixel size of
\* the image or its container.
C23_FractionOfBox ==
  ui.fn # "none" =>
    ui.style.left = ui.point.x * 100 /\ ui.style.top = ui.point.y * 100

\* a batch that holds only attribute records of elements that are not images
C24_Batch(ms) ==
  /\ ms # <<>>
  /\ \A k \in 1..Len(ms) : ms[k].type = "attributes" /\ ~IsImg(ms[k].target)

\* C24 (as claimed): a reaction of ProductOverlayManager or of the queued
\* OverlayManager to attribute records whose targets are not images removes
\* no overlay and adds nothing to the pending set or to the processing queue.
C24_NonImageAttributeIgnored ==
  [][(\/ last'.op = "P_MutationCallback" /\ C24_Batch(records)
      \/ last'.op = "Q_MutationTimer" /\ C24_Batch(mutationBatch))
     => /\ overlays' = overlays /\ ovl' = ovl
        /\ pendingImages' = pendingImages /\ processQueue' = processQueue
        /\ calls' = calls]_vars

\* C25 (as claimed): DataManager: no step replaces the result cached for a
\* url by a different one or removes it, and the result of a url is produced
\* once: no two requests for one url are in flight together.
C25_CacheEntryStable ==
  /\ [][\A u \in DOMAIN cache : u \in DOMAIN cache' /\ cache'[u] = cache[u]]_vars
  /\ [](\A u \in Urls : InFlight(u) <= 1)

\* C26 (as claimed): queued OverlayManager: the overlay built from a result
\* with k detections, each with zero or more predictions, holds exactly k
\* links in detection order, and each link lists the predictions of its
\* detection in the order received.
C26_LinksInOrder ==
  ui.fn = "createOverlay" =>
    /\ ~ui.overlay.thrown
    /\ Len(ui.overlay.links) = Len(ui.detections)
    /\ \A k \in 1..Len(ui.detections) :
          /\ ui.overlay.links[k].style.left = ui.detections[k].point.x * 100
          /\ ui.overlay.links[k].style.top = ui.detections[k].point.y * 100
          /\ ui.overlay.links[k].tooltip = ui.detections[k].product_predictions

C28_Frame(E, i) ==
  /\ E.overlays = [overlays EXCEPT ![i] = 0]
  /\ E.ovl = {o \in ovl : o.id # overlays[i]}
  /\ E.cache = cache
  /\ E.processingUrls = processingUrls
  /\ overlays[i] = 0 => E = Cur

C28_RemovalFrame ==
  \A i \in Imgs : C28_Frame(cleanupImage(Cur, i), i)
                    /\ C28_Frame(removeOverlay(Cur, i), i)

\* C28 witness: a mutation callback has removed the overlay of one bound image
\* while another image stays bound
C28_Witness ==
  /\ last.op = "P_MutationCallback"
  /\ \E i \in last.bound, j \in Imgs :
        /\ i # j
        /\ overlays[i] = 0
        /\ overlays[j] # 0 /\ \E o \in ovl : o.id = overlays[j]

\* C29: ProductOverlayManager: the debounce timer's callback passes every
\* candidate observed since the last flush to processImage, each exactly once
\* and nothing else, and leaves the pending set empty and the timer off; the
\* pending set holds exactly the candidates observed since the last flush, and
\* while it holds one the timer is armed, so a candidate that arrives after a
\* flush is flushed by a new timer.
C29_FlushWhole ==
  /\ Range(pendingImages) = Range(firstSeen)
  /\ firstSeen # <<>> => processingTimeout # Off
  /\ last.op = "P_Flush" =>
       /\ Range(last.passed) = Range(last.seen)
       /\ Len(last.passed) = Cardinality(Range(last.seen))
       /\ pendingImages = <<>>
       /\ processingTimeout = Off

\* C29 witness: a flush of two candidates
C29_Witness == last.op = "P_Flush" /\ Cardinality(Range(last.passed)) = 2

C31_NoProductsMarker ==
  (ui.fn = "createOverlay" /\ ~ui.overlay.thrown) =>
     (ui.overlay.noProducts <=> ui.detections = <<>>)

\* C31 witness: an overlay created from an empty detections list, marked
C31_Witness ==
  /\ ui.fn = "createOverlay"
  /\ ui.detections = <<>>
  /\ ~ui.overlay.thrown
  /\ ui.overlay.noProducts

\* C32: uiComponents createProductLink: a link's href is its first
\* prediction's product_url until a click; a click on the tooltip entry of the
\* k-th prediction sets the link's href to that prediction's product_url
\* before the navigation is opened, and changes the href of no other link.
C32_ClickRetargets ==
  /\ (ui.fn = "createOverlay" /\ ~ui.overlay.thrown) =>
        \A j \in 1..Len(ui.detections) :
           ui.overlay.links[j].href = ui.detections[j].product_predictions[1]
  /\ ui.fn = "click" =>
        /\ ui.links[ui.link].href =
              ui.detections[ui.link].product_predictions[ui.entry]
        /\ ui.opened = ui.detections[ui.link].product_predictions[ui.entry]
        /\ \A j \in 1..Len(ui.links) :
              j # ui.link => ui.links[j].href = ui.before[j].href

\* C33: queued OverlayManager: at most one image is being processed at any
\* time; isProcessing is true exactly while one processImage call taken from
\* processQueue is pending, and at most one lookup started through the queue
\* awaits its response, whatever the order of addToQueue calls, responses and
\* continuation timers.
C33_OneAtATime ==
  manager = "Q" =>
    /\ BagCardinality(calls) <= 1
    /\ isProcessing <=> BagCardinality(calls) = 1
    /\ Cardinality(Fetching) <= 1
    /\ \A u \in Urls : InFlight(u) <= 1

\* C33 witness: a continuation timer has started the next lookup, which
\* awaits its response
C33_Witness ==
  /\ manager = "Q"
  /\ last.op = "Q_QueueTimer"
  /\ isProcessing
  /\ Cardinality(Fetching) = 1

\* C34: queued OverlayManager: a non-empty queue is never left without a
\* processImage call in progress or a continuation timer pending, and when
\* requests complete and timers fire every image pushed on processQueue is
\* eventually taken off it.
C34_QueueDrains ==
  /\ [](manager = "Q" /\ processQueue # <<>> =>
          isProcessing \/ queueTimers # <<>>)
  /\ (processQueue # <<>>) ~> (processQueue = <<>>)

\* C34 witness: an image waits in the queue while nothing is being processed
\* and a continuation timer is pending
C34_Witness ==
  /\ manager = "Q"
  /\ processQueue # <<>>
  /\ ~isProcessing
  /\ queueTimers # <<>>

\* C35: ProductOverlayManager: the product image inside an overlay's tooltip
\* is never a candidate: no lookup is requested for it, its url is never
\* cached, and no overlay is created for it.
C35_OverlaysNotInput ==
  manager = "F" =>
    /\ \A c \in Suspended : c.img # Tip
    /\ TipUrl \notin DOMAIN cache
    /\ overlays[Tip] = 0

\* C36: ProductOverlayManager: when the class observer of a swiper-slide
\* container has run for a class change, every overlay bound to an image of
\* that container shows the slide's state, also when the container holds two
\* images with overlays and one of them was built or replaced after the other.
C36_EverySlideOverlayFollows ==
  (manager = "P" /\ last.op = "P_SlideCallback") =>
    \A o \in ovl :
      (o.cont = last.cont /\ overlays[o.img] = o.id) =>
         o.display = IF ClassList(o.cont) \cap ActiveClasses # {}
                     THEN "block" ELSE "none"

\* C37: in every manager no request is sent for an image whose src is empty
\* or starts with data: : no lookup awaits a response for such a url, and
\* none is ever cached.
C37_NoRequestForInvalidSrc ==
  manager \in {"P", "Q", "E2"} =>
    /\ \A c \in Suspended : c.st = "fetch" => c.url \notin {NoSrc, DataSrc}
    /\ DOMAIN cache \cap {NoSrc, DataSrc} = {}

\* C37 witness: a flush has passed an inline image to processImage, and no
\* lookup was started for it
C37_Witness ==
  /\ manager = "P"
  /\ last.op = "P_Flush"
  /\ "i2" \in Range(last.passed)
  /\ src["i2"] = DataSrc
  /\ \A c \in Suspended : c.img # "i2"

====
